---------------------------- MODULE Spec2Model ----------------------------
(***************************************************************************)
(* Splider: spline coefficient caching and invalidation.                   *)
(*                                                                         *)
(* Reals (double) are modelled as exact rationals <<num, den>> in lowest   *)
(* terms with den > 0.  Vectors keep the 0-based indexing of the source:   *)
(* a std::vector of size k is a function with domain 0..k-1.               *)
(***************************************************************************)
EXTENDS Integers, Sequences, FiniteSets, TLC

VARIABLES
  pts,      \* Partition: the sequence handed to the constructor
  part,     \* Partition: outcome of the constructor (status, m_u, m_h)
  ix,       \* Partition: outcome of the last index(x) call
  cache,    \* Spline<T, Cache>: the policy of the spline
  spl,      \* Spline<T, Cache>: the spline (m_v, m_s, m_cache)
  early,    \* Spline<T, Early>: a spline over the same partition
  updated,  \* history: update() ran after the last mutation of the knot values
  fill,     \* history: the indices the last call inserted into m_cache
  method,   \* the spline class of mx and of the spline inside co
  mx,       \* a spline of class method (m_v, coefficients, m_valid)
  co,       \* Co<method>: m_spline, m_args (xs: the abscissae of m_args)
  res,      \* the values returned by co or bi if the last call on it was operator()
  bi        \* BiCospline<method>: the grid, m_splines0, m_spline1, m_x, m_mask

partVars == <<pts, part, ix>>
cacheVars == <<cache, spl, early, updated, fill>>
splineVars == <<method, mx, co, res, bi>>
vars ==
  <<pts, part, ix, cache, spl, early, updated, fill, method, mx, co, res, bi>>

(***************************************************************************)
(* Bounds of the model.                                                    *)
(***************************************************************************)
MaxKnots == 4      \* longest sequence handed to the Partition constructor
MaxAbscissa == 3   \* abscissae are the integers 0..MaxAbscissa

(***************************************************************************)
(* Exact rational arithmetic.                                              *)
(***************************************************************************)
Abs(a) == IF a < 0 THEN -a ELSE a

RECURSIVE GCD(_, _)
GCD(a, b) == IF b = 0 THEN a ELSE GCD(b, a % b)

Q(n, d) ==
  LET g == GCD(Abs(n), Abs(d))
      s == IF d < 0 THEN -1 ELSE 1
  IN  <<(s * n) \div g, (s * d) \div g>>

R(i) == <<i, 1>>
Zero == R(0)
One == R(1)

RAdd(a, b) == Q(a[1] * b[2] + b[1] * a[2], a[2] * b[2])
RSub(a, b) == Q(a[1] * b[2] - b[1] * a[2], a[2] * b[2])
RMul(a, b) == Q(a[1] * b[1], a[2] * b[2])
RDiv(a, b) == Q(a[1] * b[2], a[2] * b[1])
RLt(a, b) == a[1] * b[2] < b[1] * a[2]
RLe(a, b) == a[1] * b[2] <= b[1] * a[2]

Size(f) == Cardinality(DOMAIN f)

(***************************************************************************)
(* std::size_t arithmetic.  The build has 64-bit size_t; the model keeps   *)
(* the wrap-around with a 30-bit modulus, and std::vector<double>::max_size *)
(* in the same ratio to it (modulus / 16).                                 *)
(***************************************************************************)
SizeModulus == 2^30
VectorMaxSize == SizeModulus \div 16

(***************************************************************************)
(* Partition.h.  SplineIntervals of Spline.h has the same constructor and  *)
(* the same index(x), statement for statement.                             *)
(***************************************************************************)

\* Partition::Partition(begin, end): m_u(begin, end), m_h(m_u.size() - 1),
\* then the size check and the spacing loop.
PartitionCtor(p) ==
  LET n == Size(p)
      hs == (n - 1) % SizeModulus   \* m_u.size() - 1 in std::size_t
  IN  IF hs > VectorMaxSize    \* m_h(hs): std::vector(size_type) throws
        THEN [status |-> "length_error", m_u |-> <<>>, m_h |-> <<>>]
      ELSE IF hs < 2
        THEN [status |-> "runtime_error", m_u |-> <<>>, m_h |-> <<>>]
      ELSE IF \E i \in 0..(hs - 1) : RLe(RSub(p[i + 1], p[i]), Zero)
        THEN [status |-> "runtime_error", m_u |-> <<>>, m_h |-> <<>>]
      ELSE [status |-> "ok", m_u |-> p,
            m_h |-> [i \in 0..(hs - 1) |-> RSub(p[i + 1], p[i])]]

\* Partition::size(), ssize(), length(i), operator[](i)
PSize(d) == Size(d.m_u)
PLength(d, i) == d.m_h[i]
PAt(d, i) == d.m_u[i]

\* The while loop of Partition::index: i decreases while x < m_u[i].
RECURSIVE IndexScan(_, _, _)
IndexScan(d, x, i) == IF RLt(x, d.m_u[i]) THEN IndexScan(d, x, i - 1) ELSE i

\* Partition::index(x)
PartitionIndex_fromLast(d, x) ==
  IF RLt(x, d.m_u[0]) THEN [status |-> "runtime_error", i |-> -1]
  ELSE IF RLt(d.m_u[PSize(d) - 1], x) THEN [status |-> "runtime_error", i |-> -1]
  ELSE [status |-> "ok", i |-> IndexScan(d, x, PSize(d) - 1)]

PartitionIndex(d, x) ==
  IF RLt(x, d.m_u[0]) THEN [status |-> "runtime_error", i |-> -1]
  ELSE IF RLt(d.m_u[PSize(d) - 1], x) THEN [status |-> "runtime_error", i |-> -1]
  ELSE [status |-> "ok", i |-> IndexScan(d, x, PSize(d) - 2)]

(***************************************************************************)
(* Inputs.                                                                 *)
(***************************************************************************)
Abscissae == {R(a) : a \in 0..MaxAbscissa}

\* Every sequence of at most MaxKnots abscissae, increasing or not.
PointSeqs == UNION {[0..(k - 1) -> Abscissae] : k \in 0..MaxKnots}

\* Arguments: the half-integers from -1/2 to MaxAbscissa + 1/2,
\* so that knots, midpoints and both outsides are covered.
Arguments == {Q(k, 2) : k \in (-1)..(2 * MaxAbscissa + 1)}

NoPartition == [status |-> "none", m_u |-> <<>>, m_h |-> <<>>]
NoIndex == [x |-> Zero, status |-> "none", i |-> -1]

(***************************************************************************)
(* Specification of the Partition: construct from any sequence, then look  *)
(* up arguments.                                                           *)
(***************************************************************************)
PartitionInit ==
  /\ pts = <<>>
  /\ part = NoPartition
  /\ ix = NoIndex
  /\ cache = "Early"
  /\ spl = <<>>
  /\ early = <<>>
  /\ updated = FALSE
  /\ fill = {}
  /\ method = "none"
  /\ mx = <<>>
  /\ co = <<>>
  /\ res = <<>>
  /\ bi = <<>>

\* The constructor runs once: a Partition has no mutator.
Construct(p) ==
  /\ part.status = "none"
  /\ pts' = p
  /\ part' = PartitionCtor(p)
  /\ ix' = NoIndex
  /\ UNCHANGED <<cacheVars, splineVars>>

Index(x) ==
  /\ part.status = "ok"
  /\ LET r == PartitionIndex(part, x)
     IN ix' = [x |-> x, status |-> r.status, i |-> r.i]
  /\ UNCHANGED <<pts, part>>
  /\ UNCHANGED <<cacheVars, splineVars>>

PartitionConstruct == \E p \in PointSeqs : Construct(p)
PartitionLookup == \E x \in Arguments : Index(x)

PartitionNext == PartitionConstruct \/ PartitionLookup

PartitionSpec == PartitionInit /\ [][PartitionNext]_vars

(***************************************************************************)
(* C8: for a constructed Partition of n knots and any x in [u[0], u[n-1]], *)
(* index(x) returns the i in 0..n-2 with u[i] <= x < u[i+1], or n-2 when   *)
(* x = u[n-1]; for x outside [u[0], u[n-1]] it fails with the              *)
(* out-of-domain error (std::runtime_error).                               *)
(***************************************************************************)
C8_IndexLookup ==
  (part.status = "ok" /\ ix.status # "none") =>
    LET n == PSize(part)
        u == part.m_u
        x == ix.x
        i == ix.i
    IN  IF RLe(u[0], x) /\ RLe(x, u[n - 1])
          THEN /\ ix.status = "ok"
               /\ i \in 0..(n - 2)
               /\ RLe(u[i], x)
               /\ \/ RLt(x, u[i + 1])
                  \/ (x = u[n - 1] /\ i = n - 2)
          ELSE ix.status = "runtime_error"

\* The last knot has been looked up and mapped to the last interval.
C8_Witness ==
  /\ part.status = "ok"
  /\ ix.status = "ok"
  /\ ix.x = part.m_u[PSize(part) - 1]
  /\ ix.i = PSize(part) - 2

(***************************************************************************)
(* C9: constructing a Partition from a sequence with fewer than 3 points   *)
(* (the empty one included) or with some u[i+1] <= u[i] fails with         *)
(* std::runtime_error; any strictly increasing sequence of at least 3      *)
(* points is accepted and stores h[i] = u[i+1] - u[i] > 0.                 *)
(***************************************************************************)
C9_ConstructorErrors ==
  part.status # "none" =>
    LET n == Size(pts)
    IN  IF n < 3 \/ \E i \in 0..(n - 2) : RLe(pts[i + 1], pts[i])
          THEN part.status = "runtime_error"
          ELSE /\ part.status = "ok"
               /\ part.m_u = pts
               /\ DOMAIN part.m_h = 0..(n - 2)
               /\ \A i \in 0..(n - 2) :
                    /\ part.m_h[i] = RSub(pts[i + 1], pts[i])
                    /\ RLt(Zero, part.m_h[i])


(***************************************************************************)
(* Spline.h: Spline<T, Cache> with the cache policies None, Early, Lazy.   *)
(***************************************************************************)
MaxVal == 1        \* knot values are the integers 0..MaxVal
CacheKnots == 3    \* most knots of a partition in the cache policy specification

Policies == {"None", "Early", "Lazy"}

KnotValues == {R(k) : k \in 0..MaxVal}

\* What a read outside a buffer may yield.
Indeterminate == {Zero, One}

\* The partitions the constructor accepts.
Domains == {PartitionCtor(p) : p \in {q \in PointSeqs : PartitionCtor(q).status = "ok"}}

CacheDomains == {d \in Domains : PSize(d) <= CacheKnots}

ValueSeqs(n) == [0..(n - 1) -> KnotValues]

Zeros(n) == [i \in 0..(n - 1) |-> Zero]

\* SplineArg::SplineArg(domain, x)
SplineArg(d, x) ==
  LET r == PartitionIndex(d, x)
  IN  IF r.status # "ok"
        THEN [status |-> r.status, m_index |-> -1,
              m_cv0 |-> Zero, m_cv1 |-> Zero, m_cs0 |-> Zero, m_cs1 |-> Zero]
        ELSE
          LET i == r.i
              h == PLength(d, i)
              left == RSub(x, PAt(d, i))
              right == RSub(h, left)
              six == R(6)
          IN  [status |-> "ok", m_index |-> i,
               m_cv0 |-> RDiv(right, h),
               m_cv1 |-> RDiv(left, h),
               m_cs0 |-> RSub(RDiv(RMul(RMul(right, right), right), RMul(six, h)),
                              RDiv(RMul(h, right), six)),
               m_cs1 |-> RSub(RDiv(RMul(RMul(left, left), left), RMul(six, h)),
                              RDiv(RMul(h, left), six))]

\* (m_v[i + 1] - m_v[i]) / m_h[i] - (m_v[i] - m_v[i - 1]) / m_h[i - 1]
SecondDiff(d, v, i) ==
  RSub(RDiv(RSub(v[i + 1], v[i]), d.m_h[i]),
       RDiv(RSub(v[i], v[i - 1]), d.m_h[i - 1]))

\* Spline::valid(i)
Valid(c, st, i) == IF c = "Early" THEN TRUE ELSE i \in st.m_cache

\* Spline::update(): the loop over m_s[1] .. m_s[size - 2], then the cache.
UpdateAll(c, d, st) ==
  LET size == Size(st.m_v)
  IN  [st EXCEPT
        !.m_s = [j \in DOMAIN st.m_s |->
                   IF 1 <= j /\ j <= size - 2
                     THEN SecondDiff(d, st.m_v, j) ELSE st.m_s[j]],
        !.m_cache = IF c # "Early"
                      THEN st.m_cache \cup (1..(Size(st.m_s) - 2))
                      ELSE st.m_cache]

\* Spline::update(i).  For i = 0 and i = size - 1 the expression reads
\* m_v and m_h outside their bounds: the value stored is g.
UpdateAt(c, d, st, i, g) ==
  IF c = "Early" THEN st
  ELSE [st EXCEPT
         !.m_s[i] = IF 1 <= i /\ i <= Size(st.m_v) - 2
                      THEN SecondDiff(d, st.m_v, i) ELSE g,
         !.m_cache = st.m_cache \cup {i}]

\* Spline::dv2(i): the state it leaves (the value returned is m_s[i] of it).
Dv2_always(c, d, st, i, g) ==
  IF c = "Lazy" THEN UpdateAt(c, d, st, i, g) ELSE st

Dv2(c, d, st, i, g) ==
  IF c = "Lazy" /\ ~Valid(c, st, i) THEN UpdateAt(c, d, st, i, g) ELSE st

\* Spline::Spline(u)
SplineNull(c, d) ==
  LET n == PSize(d)
  IN  [m_v |-> Zeros(n), m_s |-> Zeros(n),
       m_cache |-> IF c # "Early" THEN {0, n - 1} ELSE {}]

\* Spline::Spline(u, begin, end)
SplineValued(c, d, vals) ==
  LET st == [m_v |-> vals, m_s |-> Zeros(Size(vals)), m_cache |-> {}]
  IN  IF c = "Early" THEN UpdateAll(c, d, st)
      ELSE [st EXCEPT !.m_cache = {0, Size(st.m_s) - 1}]

\* Spline::assign(begin, end)
SplineAssign(c, d, st, vals) ==
  LET a == [st EXCEPT !.m_v = vals]
  IN  IF c = "Early" THEN UpdateAll(c, d, a)
      ELSE IF c = "Lazy" THEN [a EXCEPT !.m_cache = {0, Size(a.m_s) - 1}]
      ELSE a

\* Spline::v(i, value): in the other policies the loop over
\* j = min..max erases i at each turn.
SplineSetV_noUpdate(c, d, st, i, value) ==
  [st EXCEPT !.m_v[i] = value]

SplineSetV(c, d, st, i, value) ==
  LET a == [st EXCEPT !.m_v[i] = value]
      min == IF i > 1 THEN i - 1 ELSE 1
      m1 == i + 1
      m2 == Size(a.m_v) - 2
      max == IF m1 < m2 THEN m1 ELSE m2
  IN  IF c = "Early" THEN UpdateAll(c, d, a)
      ELSE IF min <= max THEN [a EXCEPT !.m_cache = a.m_cache \ {i}]
      ELSE a

\* Spline::operator()(const SplineArg&): the state left by dv2(i) and
\* dv2(i + 1), and the value returned.
SplineCall(c, d, st, arg, g) ==
  LET i == arg.m_index
      s1 == Dv2(c, d, st, i, g)
      s2 == Dv2(c, d, s1, i + 1, g)
  IN  [st |-> s2,
       value |-> RAdd(RAdd(RMul(st.m_v[i], arg.m_cv0), RMul(st.m_v[i + 1], arg.m_cv1)),
                      RAdd(RMul(s2.m_s[i], arg.m_cs0), RMul(s2.m_s[i + 1], arg.m_cs1)))]

(***************************************************************************)
(* Specification of the cache policies: a spline of one policy, chosen at  *)
(* the start, and an Early spline over the same partition that receives    *)
(* the same calls.                                                         *)
(***************************************************************************)
CacheInit ==
  /\ part \in CacheDomains
  /\ pts = part.m_u
  /\ ix = NoIndex
  /\ cache \in Policies
  /\ spl = SplineNull(cache, part)
  /\ early = SplineNull("Early", part)
  /\ updated = FALSE
  /\ fill = {}
  /\ method = "none"
  /\ mx = <<>>
  /\ co = <<>>
  /\ res = <<>>
  /\ bi = <<>>

\* What every call leaves alone.
CacheFrame == UNCHANGED <<cache, pts, part, ix, splineVars>>

\* Spline(u, v)
CacheConstructWith(vals) ==
  /\ spl' = SplineValued(cache, part, vals)
  /\ early' = SplineValued("Early", part, vals)
  /\ updated' = FALSE
  /\ fill' = {}
  /\ CacheFrame

CacheConstruct == \E vals \in ValueSeqs(PSize(part)) : CacheConstructWith(vals)

\* assign(v)
CacheAssignTo(vals) ==
  /\ spl' = SplineAssign(cache, part, spl, vals)
  /\ early' = SplineAssign("Early", part, early, vals)
  /\ updated' = FALSE
  /\ fill' = {}
  /\ CacheFrame

CacheAssign == \E vals \in ValueSeqs(PSize(part)) : CacheAssignTo(vals)

\* v(i, value)
CacheSetVAt(i, value) ==
  /\ spl' = SplineSetV(cache, part, spl, i, value)
  /\ early' = SplineSetV("Early", part, early, i, value)
  /\ updated' = FALSE
  /\ fill' = {}
  /\ CacheFrame

CacheSetV ==
  \E i \in 0..(PSize(part) - 1), value \in KnotValues : CacheSetVAt(i, value)

\* update()
CacheUpdate ==
  /\ spl' = UpdateAll(cache, part, spl)
  /\ early' = UpdateAll("Early", part, early)
  /\ updated' = TRUE
  /\ fill' = spl'.m_cache \ spl.m_cache
  /\ CacheFrame

\* A read of m_s[i] by update(i) is outside the buffers for the end knots.
Reads(st, i) ==
  IF 1 <= i /\ i <= Size(st.m_v) - 2 THEN {Zero} ELSE Indeterminate

\* dv2(i)
CacheDv2At(i, g) ==
  /\ spl' = Dv2(cache, part, spl, i, g)
  /\ early' = Dv2("Early", part, early, i, g)
  /\ fill' = spl'.m_cache \ spl.m_cache
  /\ UNCHANGED updated
  /\ CacheFrame

CacheDv2 ==
  \E i \in 0..(PSize(part) - 1) : \E g \in Reads(spl, i) : CacheDv2At(i, g)

\* operator()(x), at the same x on both splines; an x outside the domain
\* throws before the spline is touched.
CacheEvalAt(x, g) ==
  LET arg == SplineArg(part, x)
  IN  /\ arg.status = "ok"
      /\ spl' = SplineCall(cache, part, spl, arg, g).st
      /\ early' = SplineCall("Early", part, early, arg, g).st
      /\ fill' = spl'.m_cache \ spl.m_cache
      /\ UNCHANGED updated
      /\ CacheFrame

\* The reads an evaluation at x makes outside the buffers.
EvalReads(st, d, x) ==
  LET r == PartitionIndex(d, x)
  IN  IF r.status = "ok" THEN Reads(st, r.i) \cup Reads(st, r.i + 1) ELSE {Zero}

CacheEval ==
  \E x \in Arguments : \E g \in EvalReads(spl, part, x) : CacheEvalAt(x, g)

CacheNext ==
  \/ CacheConstruct
  \/ CacheAssign
  \/ CacheSetV
  \/ CacheUpdate
  \/ CacheDv2
  \/ CacheEval

CacheSpec == CacheInit /\ [][CacheNext]_vars

(***************************************************************************)
(* Properties of the cache policies.                                       *)
(***************************************************************************)
\* Indices of the interior knots of a spline.
Interior(st) == 1..(Size(st.m_v) - 2)

\* The interior indices max(i-1, 1) .. min(i+1, n-2) around knot i.
Zone(st, i) == {j \in Interior(st) : i - 1 <= j /\ j <= i + 1}

\* The values the two splines return at x, for a read g outside the buffers.
ValueAt(x, g) == SplineCall(cache, part, spl, SplineArg(part, x), g).value
EarlyValueAt(x, g) == SplineCall("Early", part, early, SplineArg(part, x), g).value

InDomain(x) == PartitionIndex(part, x).status = "ok"

(***************************************************************************)
(* C1: after any sequence of knot-value mutations (valued construction,    *)
(* assign, v(i, value)), an evaluation at any in-domain x returns the same *)
(* value on a Lazy spline as on an Early spline, and the same on a None    *)
(* spline on which update() ran after the last mutation.                   *)
(***************************************************************************)
C1_PoliciesAgree ==
  (cache = "Lazy" \/ (cache = "None" /\ updated)) =>
    \A x \in Arguments :
      InDomain(x) =>
        \A g \in EvalReads(spl, part, x) : ValueAt(x, g) = EarlyValueAt(x, g)

(***************************************************************************)
(* C2: under the Early policy, after the value constructor, assign or      *)
(* v(i, value), and after any sequence of such calls, valid(j) is true for *)
(* every j and every interior coefficient s[j] equals                      *)
(* (v[j+1]-v[j])/h[j] - (v[j]-v[j-1])/h[j-1] for the current knot values.  *)
(***************************************************************************)
C2_EarlyInvariant ==
  cache = "Early" =>
    /\ \A j \in DOMAIN spl.m_v : Valid(cache, spl, j)
    /\ \A j \in Interior(spl) : spl.m_s[j] = SecondDiff(part, spl.m_v, j)

\* An Early spline whose knot values were changed and whose interior
\* coefficient follows them.
C2_Witness ==
  /\ cache = "Early"
  /\ \E j \in Interior(spl) :
       /\ spl.m_s[j] # Zero
       /\ spl.m_s[j] = SecondDiff(part, spl.m_v, j)

(***************************************************************************)
(* C3: under the Lazy policy, v(i, value) makes valid(j) false for every j *)
(* in max(i-1, 1) .. min(i+1, n-2), whatever was valid before the call.    *)
(***************************************************************************)
C3_LazyInvalidation ==
  [][\A i \in DOMAIN spl.m_v, value \in KnotValues :
       (cache = "Lazy" /\ CacheSetVAt(i, value)) =>
         \A j \in Zone(spl, i) : ~Valid(cache, spl', j)]_vars

(***************************************************************************)
(* C4: under the Lazy policy, dv2(j) for an interior j that is not valid   *)
(* recomputes s[j] from the current v[j-1], v[j], v[j+1], marks j valid    *)
(* and leaves the validity of every other index (and every other           *)
(* coefficient) unchanged; dv2(j) for a valid j recomputes nothing.        *)
(***************************************************************************)
C4_LazyRead ==
  [][\A j \in DOMAIN spl.m_v : \A g \in Reads(spl, j) :
       (cache = "Lazy" /\ CacheDv2At(j, g)) =>
         IF Valid(cache, spl, j)
           THEN spl' = spl
           ELSE j \in Interior(spl) =>
                  /\ spl'.m_s[j] = SecondDiff(part, spl.m_v, j)
                  /\ spl'.m_cache = spl.m_cache \cup {j}
                  /\ \A k \in DOMAIN spl.m_s \ {j} : spl'.m_s[k] = spl.m_s[k]
                  /\ spl'.m_v = spl.m_v]_vars

\* A Lazy spline whose last call recomputed a nonzero interior coefficient.
C4_Witness ==
  /\ cache = "Lazy"
  /\ \E j \in fill \cap Interior(spl) :
       /\ Valid(cache, spl, j)
       /\ spl.m_s[j] # Zero
       /\ spl.m_s[j] = SecondDiff(part, spl.m_v, j)

(***************************************************************************)
(* C5: under the None policy, assign and v(i, value), when they change the *)
(* knot values, leave the interior coefficients that depend on the changed *)
(* knots not valid, and evaluations and reads leave the validity as it is. *)
(***************************************************************************)
C5_NoneInvalidation ==
  [][cache = "None" =>
       /\ \A vals \in ValueSeqs(Size(spl.m_v)) :
            (vals # spl.m_v /\ CacheAssignTo(vals)) =>
              \A j \in Interior(spl) :
                (\E i \in Zone(spl, j) \cup {j - 1, j + 1} : vals[i] # spl.m_v[i]) =>
                  ~Valid(cache, spl', j)
       /\ \A i \in DOMAIN spl.m_v, value \in KnotValues :
            (value # spl.m_v[i] /\ CacheSetVAt(i, value)) =>
              \A j \in Zone(spl, i) : ~Valid(cache, spl', j)
       /\ (CacheEval \/ CacheDv2) => spl'.m_cache = spl.m_cache]_vars

(***************************************************************************)
(* mixins/C2.h, C2.h, mixins/Hermite.h, Hermite.h, CatmullRom.h: the       *)
(* spline classes.  A C2Spline or FiniteDiffC2Spline holds m_v, m_6s and   *)
(* m_valid; a FiniteDiffHermiteSpline or UniformCatmullRomSpline holds     *)
(* m_v, m_d and m_valid; a LagrangeSpline holds m_v alone.                 *)
(***************************************************************************)
C2Methods == {"C2Spline", "FiniteDiffC2Spline"}
HermiteMethods == {"FiniteDiffHermiteSpline", "UniformCatmullRomSpline"}
Methods == C2Methods \cup HermiteMethods \cup {"LagrangeSpline"}

Two == R(2)
Half == Q(1, 2)

\* (m_v[i + 1] - m_v[i]) / length(i)
Slope(d, v, i) == RDiv(RSub(v[i + 1], v[i]), PLength(d, i))

\* C2Arg::C2Arg(domain, x)
C2Arg(d, x) ==
  LET r == PartitionIndex(d, x)
  IN  IF r.status # "ok"
        THEN [status |-> r.status, m_i |-> -1,
              m_cv0 |-> Zero, m_cv1 |-> Zero, m_c6s0 |-> Zero, m_c6s1 |-> Zero]
        ELSE
          LET h == PLength(d, r.i)
              left == RSub(x, PAt(d, r.i))
              right == RSub(h, left)
              cv0 == RDiv(right, h)
              cv1 == RSub(One, cv0)
          IN  [status |-> "ok", m_i |-> r.i,
               m_cv0 |-> cv0,
               m_cv1 |-> cv1,
               m_c6s0 |-> RMul(right, RSub(RMul(right, cv0), h)),
               m_c6s1 |-> RMul(left, RSub(RMul(left, cv1), h))]

\* HermiteArg::HermiteArg(domain, x)
HermiteArg(d, x) ==
  LET r == PartitionIndex(d, x)
  IN  IF r.status # "ok"
        THEN [status |-> r.status, m_i |-> -1,
              m_cv0 |-> Zero, m_cv1 |-> Zero, m_cd0 |-> Zero, m_cd1 |-> Zero]
        ELSE
          LET t == RDiv(RSub(x, PAt(d, r.i)), PLength(d, r.i))
              u == RSub(One, t)
          IN  [status |-> "ok", m_i |-> r.i,
               m_cv0 |-> RMul(RMul(RAdd(One, RMul(Two, t)), u), u),
               m_cv1 |-> RMul(RMul(t, t), RSub(R(3), RMul(Two, t))),
               m_cd0 |-> RMul(RMul(t, u), u),
               m_cd1 |-> RMul(RMul(t, t), RSub(t, One))]

\* std::clamp(v, lo, hi) for lo <= hi
Clamp(v, lo, hi) == IF v < lo THEN lo ELSE IF hi < v THEN hi ELSE v

\* LagrangeArg::LagrangeArg(domain, x).  With 3 knots std::clamp is called
\* with hi = 0 < lo = 1 and domain[m_i - 1] or domain[m_i + 2] lies outside
\* m_u: the argument is "undefined".
LagrangeArg(d, x) ==
  LET r == PartitionIndex(d, x)
  IN  IF r.status # "ok"
        THEN [status |-> r.status, m_i |-> -1, m_l |-> <<Zero, Zero, Zero, Zero>>]
      ELSE IF PSize(d) - 3 < 1
        THEN [status |-> "undefined", m_i |-> -1, m_l |-> <<Zero, Zero, Zero, Zero>>]
      ELSE
        LET i == Clamp(r.i, 1, PSize(d) - 3)
            u0 == PAt(d, i - 1)
            u1 == PAt(d, i)
            u2 == PAt(d, i + 1)
            u3 == PAt(d, i + 2)
            L(a, b) == RDiv(RSub(x, a), RSub(b, a))   \* (x - a) / (b - a)
        IN  [status |-> "ok", m_i |-> i,
             m_l |-> <<RMul(RMul(L(u1, u0), L(u2, u0)), L(u3, u0)),
                       RMul(RMul(L(u0, u1), L(u2, u1)), L(u3, u1)),
                       RMul(RMul(L(u0, u2), L(u1, u2)), L(u3, u2)),
                       RMul(RMul(L(u0, u3), L(u1, u3)), L(u2, u3))>>]

\* Method::Arg(domain, x)
MethodArg(m, d, x) ==
  IF m \in C2Methods THEN C2Arg(d, x)
  ELSE IF m \in HermiteMethods THEN HermiteArg(d, x)
  ELSE LagrangeArg(d, x)

\* C2Spline::update: the Thomas algorithm, forward pass then backward pass.
C2Update(d, st) ==
  IF st.m_valid THEN st
  ELSE
    LET n == Size(st.m_6s)
        v == st.m_v
        Fwd[i \in 1..(n - 2)] ==
          IF i = 1
            THEN [diag |-> RMul(Two, RAdd(PLength(d, 0), PLength(d, 1))),
                  rhs |-> RSub(Slope(d, v, 1), Slope(d, v, 0))]
            ELSE
              LET h0 == PLength(d, i - 1)
                  h1 == PLength(d, i)
                  w == RDiv(h1, Fwd[i - 1].diag)
              IN  [diag |-> RSub(RMul(Two, RAdd(h0, h1)), RMul(w, h1)),
                   rhs |-> RSub(RSub(Slope(d, v, i), Slope(d, v, i - 1)),
                                RMul(w, Fwd[i - 1].rhs))]
        Bwd[i \in 1..(n - 2)] ==
          IF i = n - 2
            THEN RDiv(Fwd[i].rhs, Fwd[i].diag)
            ELSE RDiv(RSub(Fwd[i].rhs, RMul(PLength(d, i), Bwd[i + 1])), Fwd[i].diag)
    IN  [st EXCEPT
          !.m_6s = [i \in DOMAIN st.m_6s |->
                      IF 1 <= i /\ i <= n - 2 THEN Bwd[i] ELSE Zero],
          !.m_valid = TRUE]

\* FiniteDiffC2Spline::update
FiniteDiffC2Update_solved(d, st) == C2Update(d, st)

FiniteDiffC2Update_endsCopied(d, st) ==
  IF st.m_valid THEN st
  ELSE
    LET n == Size(st.m_6s)
        v == st.m_v
        c(i) == RDiv(RMul(RSub(Slope(d, v, i), Slope(d, v, i - 1)), Two),
                     RAdd(PLength(d, i), PLength(d, i - 1)))
    IN  [st EXCEPT
          !.m_6s = [i \in DOMAIN st.m_6s |->
                      IF i < 1 THEN c(1) ELSE IF i > n - 2 THEN c(n - 2) ELSE c(i)],
          !.m_valid = TRUE]

FiniteDiffC2Update(d, st) ==
  IF st.m_valid THEN st
  ELSE
    LET n == Size(st.m_6s)
        v == st.m_v
    IN  [st EXCEPT
          !.m_6s = [i \in DOMAIN st.m_6s |->
                      IF 1 <= i /\ i <= n - 2
                        THEN RDiv(RMul(RSub(Slope(d, v, i), Slope(d, v, i - 1)), Two),
                                  RAdd(PLength(d, i), PLength(d, i - 1)))
                        ELSE Zero],
          !.m_valid = TRUE]

\* FiniteDiffHermiteSpline::update
FiniteDiffHermiteUpdate(d, st) ==
  IF st.m_valid THEN st
  ELSE
    LET n == Size(st.m_d)
        v == st.m_v
    IN  [st EXCEPT
          !.m_d = [i \in DOMAIN st.m_d |->
                     IF i = 0 THEN Slope(d, v, 0)
                     ELSE IF i <= n - 2
                       THEN RMul(RAdd(Slope(d, v, i), Slope(d, v, i - 1)), Half)
                     ELSE RDiv(RSub(v[n - 1], v[n - 1]), PLength(d, n - 2))],
          !.m_valid = TRUE]

\* UniformCatmullRomSpline::update
CatmullRomUpdate(d, st) ==
  IF st.m_valid THEN st
  ELSE
    LET n == Size(st.m_d)
        v == st.m_v
    IN  [st EXCEPT
          !.m_d = [i \in DOMAIN st.m_d |->
                     IF i = 0 THEN Slope(d, v, 0)
                     ELSE IF i <= n - 2
                       THEN RDiv(RSub(v[i + 1], v[i - 1]),
                                 RAdd(PLength(d, i - 1), PLength(d, i)))
                     ELSE RDiv(RSub(v[n - 1], v[n - 1]), PLength(d, n - 2))],
          !.m_valid = TRUE]

\* static_cast<TDerived&>(*this).update(i)
MethodUpdate_staysInvalid(m, d, st) ==
  IF m = "C2Spline" THEN [C2Update(d, st) EXCEPT !.m_valid = FALSE]
  ELSE IF m = "FiniteDiffC2Spline" THEN [FiniteDiffC2Update(d, st) EXCEPT !.m_valid = FALSE]
  ELSE IF m = "FiniteDiffHermiteSpline" THEN FiniteDiffHermiteUpdate(d, st)
  ELSE IF m = "UniformCatmullRomSpline" THEN CatmullRomUpdate(d, st)
  ELSE st

MethodUpdate(m, d, st) ==
  IF m = "C2Spline" THEN C2Update(d, st)
  ELSE IF m = "FiniteDiffC2Spline" THEN FiniteDiffC2Update(d, st)
  ELSE IF m = "FiniteDiffHermiteSpline" THEN FiniteDiffHermiteUpdate(d, st)
  ELSE IF m = "UniformCatmullRomSpline" THEN CatmullRomUpdate(d, st)
  ELSE st

\* Spline(u): the null constructors.
MethodNull(m, d) ==
  LET n == PSize(d)
  IN  IF m \in C2Methods
        THEN [m_v |-> Zeros(n), m_6s |-> Zeros(n), m_valid |-> TRUE]
      ELSE IF m \in HermiteMethods
        THEN [m_v |-> Zeros(n), m_d |-> Zeros(n), m_valid |-> TRUE]
      ELSE [m_v |-> Zeros(n)]

\* Spline(u, begin, end): the valued constructors.
MethodValued(m, d, vals) ==
  IF m \in C2Methods
    THEN [m_v |-> vals, m_6s |-> Zeros(Size(vals)), m_valid |-> FALSE]
  ELSE IF m \in HermiteMethods
    THEN [m_v |-> vals, m_d |-> Zeros(Size(vals)), m_valid |-> FALSE]
  ELSE [m_v |-> vals]

\* assign(begin, end)
MethodAssign_resized(m, st, vals) ==
  IF m = "LagrangeSpline" THEN [st EXCEPT !.m_v = vals]
  ELSE IF m \in C2Methods
    THEN [st EXCEPT !.m_v = vals, !.m_6s = Zeros(Size(vals)), !.m_valid = FALSE]
  ELSE [st EXCEPT !.m_v = vals, !.m_d = Zeros(Size(vals)), !.m_valid = FALSE]

MethodAssign(m, st, vals) ==
  IF m = "LagrangeSpline" THEN [st EXCEPT !.m_v = vals]
  ELSE [st EXCEPT !.m_v = vals, !.m_valid = FALSE]

\* set(i, v)
MethodSet_keepValid(m, st, i, value) ==
  [st EXCEPT !.m_v[i] = value]

MethodSet(m, st, i, value) ==
  IF m = "LagrangeSpline" THEN [st EXCEPT !.m_v[i] = value]
  ELSE [st EXCEPT !.m_v[i] = value, !.m_valid = FALSE]

\* The combination operator()(const Arg&) returns, on the coefficients c.
C2Value_sameKnot(v, c, arg) ==
  LET i == arg.m_i
  IN  RAdd(RAdd(RMul(v[i], arg.m_cv0), RMul(v[i], arg.m_cv1)),
           RAdd(RMul(c[i], arg.m_c6s0), RMul(c[i + 1], arg.m_c6s1)))

C2Value(v, c, arg) ==
  LET i == arg.m_i
  IN  RAdd(RAdd(RMul(v[i], arg.m_cv0), RMul(v[i + 1], arg.m_cv1)),
           RAdd(RMul(c[i], arg.m_c6s0), RMul(c[i + 1], arg.m_c6s1)))

HermiteValue(v, c, arg) ==
  LET i == arg.m_i
  IN  RAdd(RAdd(RMul(v[i], arg.m_cv0), RMul(v[i + 1], arg.m_cv1)),
           RAdd(RMul(c[i], arg.m_cd0), RMul(c[i + 1], arg.m_cd1)))

\* std::inner_product(m_l.begin(), m_l.end(), &m_v[i - 1], Value())
LagrangeValue_firstTwice(v, arg) ==
  LET i == arg.m_i
  IN  RAdd(RAdd(RAdd(RAdd(Zero, RMul(arg.m_l[1], v[i - 1])),
                     RMul(arg.m_l[2], v[i - 1])),
                RMul(arg.m_l[3], v[i + 1])),
           RMul(arg.m_l[4], v[i + 2]))

LagrangeValue(v, arg) ==
  LET i == arg.m_i
  IN  RAdd(RAdd(RAdd(RAdd(Zero, RMul(arg.m_l[1], v[i - 1])),
                     RMul(arg.m_l[2], v[i])),
                RMul(arg.m_l[3], v[i + 1])),
           RMul(arg.m_l[4], v[i + 2]))

\* The return statement of operator()(const Arg&), on the spline st as
\* update(i) left it.  An undefined Lagrange argument makes it read outside
\* m_v: it returns g.
MethodReturn(m, st, arg, g) ==
  [st |-> st,
   value |-> IF m \in C2Methods THEN C2Value(st.m_v, st.m_6s, arg)
             ELSE IF m \in HermiteMethods THEN HermiteValue(st.m_v, st.m_d, arg)
             ELSE IF arg.status = "ok" THEN LagrangeValue(st.m_v, arg)
             ELSE g]

\* operator()(const Arg&): the state it leaves and the value it returns.
\* The Lagrange spline has no update: MethodUpdate leaves it as it is.
MethodCallArg(m, d, st, arg, g) ==
  MethodReturn(m, MethodUpdate(m, d, st), arg, g)

\* operator()(Real x): Arg(m_domain, x) may throw, before the spline is read.
MethodCall_updateFirst(m, d, st, x, g) ==
  LET arg == MethodArg(m, d, x)
  IN  IF arg.status = "runtime_error"
        THEN [status |-> "runtime_error", st |-> MethodUpdate(m, d, st), value |-> Zero]
        ELSE LET r == MethodCallArg(m, d, st, arg, g)
             IN  [status |-> "ok", st |-> r.st, value |-> r.value]

MethodCall(m, d, st, x, g) ==
  LET arg == MethodArg(m, d, x)
  IN  IF arg.status = "runtime_error"
        THEN [status |-> "runtime_error", st |-> st, value |-> Zero]
        ELSE LET r == MethodCallArg(m, d, st, arg, g)
             IN  [status |-> "ok", st |-> r.st, value |-> r.value]

\* What the reads of an evaluation outside the buffers may yield.
MethodReads(m, d) ==
  IF m = "LagrangeSpline" /\ PSize(d) - 3 < 1 THEN Indeterminate ELSE {Zero}

\* operator()(begin, end) over stored arguments: one call per argument, in
\* order; args and the values returned are sequences indexed from 1.
\* out.push_back(r.value), on the spline as the call left it
BatchPush(out, r) == [st |-> r.st, values |-> Append(out.values, r.value)]

\* One turn of the loop: out.push_back(operator()(*begin))
BatchStep(m, d, out, arg, g) ==
  BatchPush(out, MethodCallArg(m, d, out.st, arg, g))

RECURSIVE MethodBatch(_, _, _, _, _, _)
MethodBatch(m, d, st, args, gs, k) ==
  IF k = 0 THEN [st |-> st, values |-> <<>>]
  ELSE BatchStep(m, d, MethodBatch(m, d, st, args, gs, k - 1), args[k], gs[k])

(***************************************************************************)
(* Specification of the spline classes: a spline of one class over one     *)
(* partition, both chosen at the start, then any calls.                    *)
(***************************************************************************)
MethodInit ==
  /\ part \in Domains
  /\ pts = part.m_u
  /\ ix = NoIndex
  /\ method \in Methods
  /\ mx = MethodNull(method, part)
  /\ co = <<>>
  /\ res = <<>>
  /\ bi = <<>>
  /\ cache = "Early"
  /\ spl = <<>>
  /\ early = <<>>
  /\ updated = FALSE
  /\ fill = {}

MethodFrame == UNCHANGED <<partVars, cacheVars, method, co, res, bi>>

\* Spline(u)
MethodConstructNull ==
  /\ mx' = MethodNull(method, part)
  /\ MethodFrame

\* Spline(u, v)
MethodConstruct ==
  \E vals \in ValueSeqs(PSize(part)) :
    /\ mx' = MethodValued(method, part, vals)
    /\ MethodFrame

\* assign(v)
MethodAssignTo(vals) ==
  /\ mx' = MethodAssign(method, mx, vals)
  /\ MethodFrame

MethodAssignAny == \E vals \in ValueSeqs(PSize(part)) : MethodAssignTo(vals)

\* set(i, value)
MethodSetAt(i, value) ==
  /\ mx' = MethodSet(method, mx, i, value)
  /\ MethodFrame

MethodSetAny ==
  \E i \in 0..(PSize(part) - 1), value \in KnotValues : MethodSetAt(i, value)

\* operator()(x)
MethodEvalAt(x, g) ==
  /\ mx' = MethodCall(method, part, mx, x, g).st
  /\ MethodFrame

MethodEval ==
  \E x \in Arguments : \E g \in MethodReads(method, part) : MethodEvalAt(x, g)

MethodNext ==
  \/ MethodConstructNull
  \/ MethodConstruct
  \/ MethodAssignAny
  \/ MethodSetAny
  \/ MethodEval

MethodSpec == MethodInit /\ [][MethodNext]_vars

(***************************************************************************)
(* Properties of the spline classes.                                       *)
(***************************************************************************)
CachedMethods == C2Methods \cup HermiteMethods

\* The coefficient sequence of a spline: m_6s or m_d.
Coefs(m, st) == IF m \in C2Methods THEN st.m_6s ELSE st.m_d

\* The solver's output on the knot values v: the coefficients update()
\* computes on a spline freshly built on v.
Solved(m, d, v) == Coefs(m, MethodUpdate(m, d, MethodValued(m, d, v)))

\* The combination of the knot values v and the coefficients c at x.
ValueOn(m, d, v, c, x) ==
  IF m \in C2Methods THEN C2Value(v, c, C2Arg(d, x))
  ELSE HermiteValue(v, c, HermiteArg(d, x))

\* C6, in every state: a true validity flag comes with the solver's output
\* on the current knot values; an evaluation at any x, whatever its
\* interval, leaves the whole solved sequence with a true flag and returns
\* the combination of the current knot values and their solved coefficients.
C6_UpToDate ==
  method \in CachedMethods =>
    LET solved == Solved(method, part, mx.m_v)
    IN  /\ mx.m_valid => Coefs(method, mx) = solved
        /\ \A x \in Arguments :
             InDomain(x) =>
               LET r == MethodCall(method, part, mx, x, Zero)
               IN  /\ r.st.m_valid
                   /\ r.st.m_v = mx.m_v
                   /\ Coefs(method, r.st) = solved
                   /\ r.value = ValueOn(method, part, mx.m_v, solved, x)

\* C6, in every step: set(i, value) clears the flag.
C6_Invalidate ==
  method \in CachedMethods =>
    \A i \in DOMAIN mx.m_v, value \in KnotValues :
      MethodSetAt(i, value) => ~mx'.m_valid

(***************************************************************************)
(* C6: for C2, finite-difference C2, Hermite and Catmull-Rom splines,      *)
(* after any sequence of constructions, assign, set(i, value) and          *)
(* evaluations, whenever the validity flag is true the coefficient         *)
(* sequence equals the solver's output on the current knot values, every   *)
(* evaluation returns a value computed from such coefficients, and one     *)
(* set(i, value) invalidates and leads to recomputing the whole sequence   *)
(* at the next evaluation, whatever interval its argument falls in.        *)
(***************************************************************************)
C6_ValidMeansSolved == []C6_UpToDate /\ [][C6_Invalidate]_vars

\* A spline whose flag is true with coefficients that are not the zeros the
\* constructors leave: an evaluation has solved after a mutation.
C6_Witness ==
  /\ method \in CachedMethods
  /\ mx.m_valid
  /\ Coefs(method, mx) # Zeros(Size(mx.m_v))
  /\ Coefs(method, mx) = Solved(method, part, mx.m_v)

(***************************************************************************)
(* C10: for every spline class, every partition and every knot values v,   *)
(* the evaluation at a knot abscissa u[i] returns v[i], for all i in       *)
(* 0..n-1, whatever the coefficients are.                                  *)
(***************************************************************************)
C10_ThroughKnots ==
  \A i \in DOMAIN mx.m_v : \A g \in MethodReads(method, part) :
    LET r == MethodCall(method, part, mx, PAt(part, i), g)
    IN  r.status = "ok" /\ r.value = mx.m_v[i]

\* The same, without the Lagrange spline on 3 knots.
ThroughKnotsWhereDefined ==
  (method = "LagrangeSpline" => PSize(part) >= 4) => C10_ThroughKnots

(***************************************************************************)
(* Co.h: Co<TSpline>, a spline over fixed arguments, called on knot        *)
(* values.  m_args is a sequence indexed from 1; xs keeps the abscissae    *)
(* the stored arguments were built from.                                   *)
(***************************************************************************)
MaxArgs == 2       \* most arguments handed to a cospline

\* Abscissae for a cospline: the midpoints k + 1/2 of the unit intervals,
\* where the coefficients weigh in, from -1/2 to MaxAbscissa + 1/2.
CoArguments == {Q(2 * k - 1, 2) : k \in 0..(MaxAbscissa + 1)}

ArgSeqs == UNION {[1..k -> CoArguments] : k \in 0..MaxArgs}

\* Number of leading abscissae of xs that lie in the domain.
RECURSIVE Accepted(_, _, _)
Accepted(d, xs, k) ==
  IF k < Len(xs) /\ PartitionIndex(d, xs[k + 1]).status = "ok"
    THEN Accepted(d, xs, k + 1) ELSE k

\* Co::assign(begin, end): clear, then one emplace_back per abscissa; the
\* Arg constructor throws at the first abscissa outside the domain.
CoAssignArgs(m, d, c, xs) ==
  LET k == Accepted(d, xs, 0)
  IN  [status |-> IF k = Len(xs) THEN "ok" ELSE "runtime_error",
       co |-> [c EXCEPT !.m_args = [j \in 1..k |-> MethodArg(m, d, xs[j])],
                        !.xs = SubSeq(xs, 1, k)]]

\* Co::Co(domain, begin, end)
CoCtor(m, d, xs) ==
  CoAssignArgs(m, d, [m_spline |-> MethodNull(m, d), m_args |-> <<>>, xs |-> <<>>], xs)

\* Co::operator()(begin, end): m_spline.assign(begin, end), then
\* m_spline(m_args).
CoReturn(c, b) == [co |-> [c EXCEPT !.m_spline = b.st], values |-> b.values]

CoCall(m, d, c, vals, gs) ==
  CoReturn(c, MethodBatch(m, d, MethodAssign(m, c.m_spline, vals),
                          c.m_args, gs, Len(c.m_args)))

\* What the reads of each evaluation of a call outside the buffers may yield.
CoReads(m, d, c) == [1..Len(c.m_args) -> MethodReads(m, d)]

NotCalled == [called |-> FALSE, values |-> <<>>]

(***************************************************************************)
(* Specification of the cospline: one cospline of one class over one       *)
(* partition, built on arguments of the domain, then any calls.            *)
(***************************************************************************)
CoInit ==
  /\ part \in Domains
  /\ pts = part.m_u
  /\ ix = NoIndex
  /\ method \in Methods
  /\ mx = <<>>
  /\ \E xs \in ArgSeqs :
       /\ CoCtor(method, part, xs).status = "ok"
       /\ co = CoCtor(method, part, xs).co
  /\ res = NotCalled
  /\ bi = <<>>
  /\ cache = "Early"
  /\ spl = <<>>
  /\ early = <<>>
  /\ updated = FALSE
  /\ fill = {}

CoFrame == UNCHANGED <<partVars, cacheVars, method, mx, bi>>

\* assign(x)
CoAssignTo(xs) ==
  /\ co' = CoAssignArgs(method, part, co, xs).co
  /\ res' = NotCalled
  /\ CoFrame

CoAssign == \E xs \in ArgSeqs : CoAssignTo(xs)

\* operator()(v)
CoCallWith(vals, gs) ==
  \E r \in {CoCall(method, part, co, vals, gs)} :
    /\ co' = r.co
    /\ res' = [called |-> TRUE, values |-> r.values]
    /\ CoFrame

CoEval ==
  \E vals \in ValueSeqs(PSize(part)) :
    \E gs \in CoReads(method, part, co) : CoCallWith(vals, gs)

CoNext ==
  \/ CoAssign
  \/ CoEval

CoSpec == CoInit /\ [][CoNext]_vars

\* The values a spline freshly built on (u, vals) returns at xs.
FreshValues(m, d, vals, xs, gs) ==
  MethodBatch(m, d, MethodValued(m, d, vals),
              [j \in 1..Len(xs) |-> MethodArg(m, d, xs[j])], gs, Len(xs)).values

(***************************************************************************)
(* C7: whatever knot-value sequences were passed before to the same        *)
(* cospline built on (u, x), a call with v returns exactly the values that *)
(* a spline freshly built on (u, v) returns at x.                          *)
(***************************************************************************)
C7_CosplineIsFresh ==
  res.called =>
    \A gs \in CoReads(method, part, co) :
      res.values = FreshValues(method, part, co.m_spline.m_v, co.xs, gs)

\* The same, without the Lagrange spline on 3 knots.
CosplineIsFreshWhereDefined ==
  (method = "LagrangeSpline" => PSize(part) >= 4) => C7_CosplineIsFresh

(***************************************************************************)
(* The solvers on their own: a spline of one class built on knot values    *)
(* over a partition, both drawn from wider ranges than above so that       *)
(* uneven partitions of 4 knots and strictly monotone values occur, then   *)
(* solved and evaluated.                                                   *)
(***************************************************************************)
SolveMaxAbscissa == 4   \* abscissae are the integers 0..SolveMaxAbscissa
SolveMaxVal == 4        \* knot values are the integers 0..SolveMaxVal

SolveAbscissae == {R(a) : a \in 0..SolveMaxAbscissa}

SolvePointSeqs == UNION {[0..(k - 1) -> SolveAbscissae] : k \in 3..MaxKnots}

SolveDomains ==
  {PartitionCtor(p) : p \in {q \in SolvePointSeqs : PartitionCtor(q).status = "ok"}}

SolveValues == {R(k) : k \in 0..SolveMaxVal}

SolveValueSeqs(n) == [0..(n - 1) -> SolveValues]

\* The half-integers from -1/2 to SolveMaxAbscissa + 1/2.
SolveArguments == {Q(k, 2) : k \in (-1)..(2 * SolveMaxAbscissa + 1)}

SolveInit ==
  /\ part \in SolveDomains
  /\ pts = part.m_u
  /\ ix = NoIndex
  /\ method \in C2Methods
  /\ mx \in {MethodValued(method, part, vals) : vals \in SolveValueSeqs(PSize(part))}
  /\ co = <<>>
  /\ res = <<>>
  /\ bi = <<>>
  /\ cache = "Early"
  /\ spl = <<>>
  /\ early = <<>>
  /\ updated = FALSE
  /\ fill = {}

\* update(i)
SolveUpdate ==
  /\ mx' = MethodUpdate(method, part, mx)
  /\ MethodFrame

\* operator()(x)
SolveEvalAt(x) ==
  /\ mx' = MethodCall(method, part, mx, x, Zero).st
  /\ MethodFrame

SolveEval == \E x \in SolveArguments : SolveEvalAt(x)

SolveNext ==
  \/ SolveUpdate
  \/ SolveEval

SolveSpec == SolveInit /\ [][SolveNext]_vars

(***************************************************************************)
(* Properties of the solvers.                                              *)
(***************************************************************************)
StrictlyMonotone(v) ==
  \/ \A i \in 0..(Size(v) - 2) : RLt(v[i], v[i + 1])
  \/ \A i \in 0..(Size(v) - 2) : RLt(v[i + 1], v[i])

\* v[i] = a * u[i] + b with a # 0: every slope is the first, which is not 0.
StrictlyAffine(d, v) ==
  /\ Slope(d, v, 0) # Zero
  /\ \A i \in 0..(Size(v) - 2) : Slope(d, v, i) = Slope(d, v, 0)

\* y lies strictly between a and b
StrictlyBetween(y, a, b) ==
  \/ RLt(a, y) /\ RLt(y, b)
  \/ RLt(b, y) /\ RLt(y, a)

\* Cospline(u, {x})(v): the one value it returns.
ThroughCospline(m, d, v, x) ==
  CoCall(m, d, CoCtor(m, d, <<x>>).co, v, <<Zero>>).values[1]

\* The value at every x strictly inside a subinterval, evaluated directly
\* and through a cospline, lies strictly between the values of its knots.
Bracketed ==
  \A x \in SolveArguments :
    InDomain(x) =>
      LET i == PartitionIndex(part, x).i
      IN  (RLt(PAt(part, i), x) /\ RLt(x, PAt(part, i + 1))) =>
            /\ StrictlyBetween(MethodCall(method, part, mx, x, Zero).value,
                               mx.m_v[i], mx.m_v[i + 1])
            /\ StrictlyBetween(ThroughCospline(method, part, mx.m_v, x),
                               mx.m_v[i], mx.m_v[i + 1])

(***************************************************************************)
(* C11 as stated: given strictly monotone knot values v and any x strictly *)
(* between u[i] and u[i+1], the value of the natural cubic spline at x,    *)
(* evaluated directly or through a cospline, lies strictly between v[i]    *)
(* and v[i+1].                                                             *)
(***************************************************************************)
C11_MonotoneBracketing ==
  (method = "C2Spline" /\ StrictlyMonotone(mx.m_v)) => Bracketed

(***************************************************************************)
(* C11 as amended: given knot values that are an affine function of the    *)
(* abscissae with a slope other than 0 and any x strictly between u[i] and *)
(* u[i+1], the value of the natural cubic spline at x, evaluated directly  *)
(* or through a cospline, lies strictly between v[i] and v[i+1].           *)
(***************************************************************************)
C11_AffineBracketing ==
  (method = "C2Spline" /\ StrictlyAffine(part, mx.m_v)) => Bracketed

\* A solved natural spline on affine values over an uneven partition of 4
\* knots.
C11_Witness ==
  /\ method = "C2Spline"
  /\ mx.m_valid
  /\ StrictlyAffine(part, mx.m_v)
  /\ PSize(part) = 4
  /\ PLength(part, 0) # PLength(part, 2)

\* Row i of the natural-spline system on the stored coefficients c:
\* h[i-1]*c[i-1] + 2*(h[i-1] + h[i])*c[i] + h[i]*c[i+1]
\*   = (v[i+1] - v[i])/h[i] - (v[i] - v[i-1])/h[i-1]
RowHolds(d, v, c, i) ==
  RAdd(RAdd(RMul(PLength(d, i - 1), c[i - 1]),
            RMul(RMul(Two, RAdd(PLength(d, i - 1), PLength(d, i))), c[i])),
       RMul(PLength(d, i), c[i + 1]))
    = RSub(Slope(d, v, i), Slope(d, v, i - 1))

(***************************************************************************)
(* C12: after the C2 global solve on any strictly increasing partition,    *)
(* evenly spaced or not, and any knot values, the stored coefficients      *)
(* solve the natural-spline tridiagonal system: every row i in 1..n-2      *)
(* holds.                                                                  *)
(***************************************************************************)
C12_SolvesTridiagonal ==
  (method = "C2Spline" /\ mx.m_valid) =>
    \A i \in 1..(PSize(part) - 2) : RowHolds(part, mx.m_v, mx.m_6s, i)

\* The same, where the forward pass meets no two successive subintervals of
\* different lengths.
SolvesTridiagonalWhereEven ==
  (\A i \in 2..(PSize(part) - 2) : PLength(part, i) = PLength(part, i - 1))
    => C12_SolvesTridiagonal

(***************************************************************************)
(* C13: for natural C2 and finite-difference C2 splines, after every solve *)
(* the boundary coefficients are zero, s[0] = 0 and s[n-1] = 0, for every  *)
(* partition and every knot values.                                        *)
(***************************************************************************)
C13_NaturalEnds ==
  (method \in C2Methods /\ mx.m_valid) =>
    /\ mx.m_6s[0] = Zero
    /\ mx.m_6s[PSize(part) - 1] = Zero

\* A solved finite-difference spline all of whose interior coefficients are
\* other than 0.
C13_Witness ==
  /\ method = "FiniteDiffC2Spline"
  /\ mx.m_valid
  /\ \A i \in 1..(PSize(part) - 2) : mx.m_6s[i] # Zero

\* enum class C2Bounds
C2Bounds == {"Natural", "NotAKnot"}

\* C2Spline<TDomain, TValue, B>::update: the one body of update serves every
\* B, and does not read it.
C2SplineUpdate(b, d, st) == C2Update(d, st)

\* C2Spline<TDomain, TValue, B>(u, v)(x)
C2SplineValue(b, d, vals, x) ==
  C2Value(vals, C2SplineUpdate(b, d, MethodValued("C2Spline", d, vals)).m_6s,
          C2Arg(d, x))

(***************************************************************************)
(* C14: a C2 spline built with Bounds::NotAKnot uses boundary rows         *)
(* distinct from the natural ones: for some partition and knot values its  *)
(* coefficients, and its value at some x of the domain, differ from those  *)
(* of Bounds::Natural.                                                     *)
(***************************************************************************)
C14_NotAKnotDiffers ==
  method = "C2Spline" =>
    \E d \in SolveDomains : \E vals \in SolveValueSeqs(PSize(d)) :
      /\ C2SplineUpdate("NotAKnot", d, MethodValued("C2Spline", d, vals)).m_6s
           # C2SplineUpdate("Natural", d, MethodValued("C2Spline", d, vals)).m_6s
      /\ \E x \in SolveArguments :
           /\ PartitionIndex(d, x).status = "ok"
           /\ C2SplineValue("NotAKnot", d, vals, x)
                # C2SplineValue("Natural", d, vals, x)

(***************************************************************************)
(* BiSpline.h: BiCospline<TSpline>, a cospline over a grid domain0 x        *)
(* domain1 and a trajectory.  m_splines0[j] is the spline along axis 0 of  *)
(* column j; m_x is a sequence indexed from 1 of pairs of arguments (xs    *)
(* keeps the points they were built from); m_mask is the set of the cells  *)
(* <<j0, j1>> whose flag is true.                                          *)
(***************************************************************************)
MaxPoints == 2     \* most points of a trajectory
MaxLit == 1        \* most cells of a raster that hold 1, the others hold 0

\* The spline classes whose Arg has index().
BiMethods == C2Methods \cup {"LagrangeSpline"}

\* The axes: the partition of knots 0, 1, .., MaxKnots - 1, on which a window
\* of 4 knots may leave a knot out and every Arg is defined.
BiDomains ==
  {d \in Domains : PSize(d) = MaxKnots /\ PAt(d, MaxKnots - 1) = R(MaxKnots - 1)}

\* std::max(i - 1, 0L)
WindowMin(i) == IF i - 1 < 0 THEN 0 ELSE i - 1
\* std::min(i + 2, ssize() - 1)
WindowMax_unclipped(i, n) == i + 2

WindowMax(i, n) == IF n - 1 < i + 2 THEN n - 1 ELSE i + 2

\* The cells the constructor sets for one point of arguments a0, a1.
PointCells(d0, d1, a0, a1) ==
  {<<j0, j1>> : j0 \in WindowMin(a0.m_i)..WindowMax(a0.m_i, PSize(d0)),
                j1 \in WindowMin(a1.m_i)..WindowMax(a1.m_i, PSize(d1))}

\* std::array<Arg, Dimension> xi {Arg(domain0, (*begin)[0]), Arg(domain1, (*begin)[1])}
PointArgs(m, d0, d1, x) == <<MethodArg(m, d0, x[1]), MethodArg(m, d1, x[2])>>

\* BiCospline(domain0, domain1, begin, end), for a trajectory xs of points of
\* the grid.
BiCtor(m, d0, d1, xs) ==
  [domain0 |-> d0, domain1 |-> d1,
   m_splines0 |-> [j \in 0..(PSize(d1) - 1) |-> MethodNull(m, d0)],
   m_spline1 |-> MethodNull(m, d1),
   m_x |-> [k \in 1..Len(xs) |-> PointArgs(m, d0, d1, xs[k])],
   xs |-> xs,
   m_mask |-> UNION {PointCells(d0, d1, MethodArg(m, d0, xs[k][1]),
                                MethodArg(m, d1, xs[k][2])) :
                       k \in 1..Len(xs)}]

\* The points of a trajectory: along each axis, the midpoint of the first
\* and of the last subinterval.
BiAbscissae == {Q(1, 2), Q(2 * MaxKnots - 3, 2)}
BiPoints(d0, d1) ==
  {<<x0, x1>> : x0 \in {x \in BiAbscissae : PartitionIndex(d0, x).status = "ok"},
                x1 \in {x \in BiAbscissae : PartitionIndex(d1, x).status = "ok"}}
Trajectories(d0, d1) == UNION {[1..k -> BiPoints(d0, d1)] : k \in 0..MaxPoints}

\* The cells of the grid.
Cells(d0, d1) == (0..(PSize(d0) - 1)) \X (0..(PSize(d1) - 1))

\* The sets of at most k cells.
RECURSIVE LitSets(_, _)
LitSets(cells, k) ==
  IF k = 0 THEN {{}}
  ELSE LitSets(cells, k - 1)
         \cup {lit \cup {c} : lit \in LitSets(cells, k - 1), c \in cells}

\* The rasters of knot values handed to operator().
Rasters(d0, d1) ==
  {[c \in Cells(d0, d1) |-> IF c \in lit THEN One ELSE Zero] :
     lit \in LitSets(Cells(d0, d1), MaxLit)}

\* One turn of the loop over m_mask: m_splines0[p[1]].set(p[0], v[p]), which
\* the loop runs for the cells of the mask only.
SetCell_everyCell(m, st, mask, v, j, i) ==
  MethodSet(m, st, i, v[<<i, j>>])

SetCell(m, st, mask, v, j, i) ==
  IF <<i, j>> \in mask THEN MethodSet(m, st, i, v[<<i, j>>]) ELSE st

\* The turns of that loop on the cells <<0, j>> .. <<i - 1, j>> of column j.
RECURSIVE SetMasked(_, _, _, _, _, _)
SetMasked(m, st, mask, v, j, i) ==
  IF i = 0 THEN st
  ELSE SetCell(m, SetMasked(m, st, mask, v, j, i - 1), mask, v, j, i - 1)

\* m_spline1.set(i, r.value), r being what m_splines0[i](x[0]) gave.
FeedResult(m, b, i, r) ==
  [b EXCEPT !.m_splines0[i] = r.st,
            !.m_spline1 = MethodSet(m, b.m_spline1, i, r.value)]

\* m_spline1.set(i, m_splines0[i](x[0]))
FeedRow(m, b, a0, g, i) ==
  FeedResult(m, b, i, MethodCallArg(m, b.domain0, b.m_splines0[i], a0, g))

\* for (auto i = min; i <= max; ++i): the turns min .. i
RECURSIVE Feed(_, _, _, _, _, _)
Feed(m, b, a0, g, min, i) ==
  IF i < min THEN b ELSE FeedRow(m, Feed(m, b, a0, g, min, i - 1), a0, g, i)

\* y.push_back(r.value), r being what m_spline1(x[1]) gave.
PointResult(b, y, r) ==
  [bi |-> [b EXCEPT !.m_spline1 = r.st], y |-> Append(y, r.value)]

\* y.push_back(m_spline1(x[1]))
PointPush(m, b, y, a1, g) ==
  PointResult(b, y, MethodCallArg(m, b.domain1, b.m_spline1, a1, g))

\* One turn of the loop over m_x, for the point of arguments a.
PointStep(m, acc, a, g) ==
  PointPush(m,
            Feed(m, acc.bi, a[1], g, WindowMin(a[2].m_i),
                 WindowMax(a[2].m_i, PSize(acc.bi.domain1))),
            acc.y, a[2], g)

\* The turns of the loop over m_x for the points 1 .. k.
RECURSIVE PointLoop(_, _, _, _)
PointLoop(m, b, gs, k) ==
  IF k = 0 THEN [bi |-> b, y |-> <<>>]
  ELSE PointStep(m, PointLoop(m, b, gs, k - 1), b.m_x[k], gs[k])

\* BiCospline::operator()(v): the bicospline it leaves and the values y it
\* returns.
BiCall(m, b, v, gs) ==
  PointLoop(m,
            [b EXCEPT !.m_splines0 =
               [j \in DOMAIN b.m_splines0 |->
                  SetMasked(m, b.m_splines0[j], b.m_mask, v, j, PSize(b.domain0))]],
            gs, Len(b.m_x))

\* What the reads outside the buffers may yield, for each point.
BiReads(m, b) ==
  [1..Len(b.m_x) -> MethodReads(m, b.domain0) \cup MethodReads(m, b.domain1)]

BiNotCalled == [called |-> FALSE, values |-> <<>>, v |-> <<>>]

(***************************************************************************)
(* Specification of the bivariate cospline: one bicospline of one class    *)
(* over one grid and one trajectory, then any calls.                       *)
(***************************************************************************)
BiInit ==
  /\ pts = <<>>
  /\ part = NoPartition
  /\ ix = NoIndex
  /\ method \in BiMethods
  /\ mx = <<>>
  /\ co = <<>>
  /\ res = BiNotCalled
  /\ \E d0 \in BiDomains, d1 \in BiDomains :
       \E xs \in Trajectories(d0, d1) : bi = BiCtor(method, d0, d1, xs)
  /\ cache = "Early"
  /\ spl = <<>>
  /\ early = <<>>
  /\ updated = FALSE
  /\ fill = {}

\* operator()(v)
BiCallWith(v, gs) ==
  \E r \in {BiCall(method, bi, v, gs)} :
    /\ bi' = r.bi
    /\ res' = [called |-> TRUE, values |-> r.y, v |-> v]
    /\ UNCHANGED <<partVars, cacheVars, method, mx, co>>

BiEval ==
  \E v \in Rasters(bi.domain0, bi.domain1) :
    \E gs \in BiReads(method, bi) : BiCallWith(v, gs)

BiNext == BiEval

BiSpec == BiInit /\ [][BiNext]_vars

(***************************************************************************)
(* Properties of the bivariate cospline.                                   *)
(***************************************************************************)
\* Column j of the raster v: the knot values along axis 0.
Column(v, d0, j) == [i \in 0..(PSize(d0) - 1) |-> v[<<i, j>>]]

\* The value at x[1] of the spline along axis 0 built on the whole column j.
ColumnValue(m, d0, v, j, x) ==
  MethodCall(m, d0, MethodValued(m, d0, Column(v, d0, j)), x[1], Zero).value

\* The separable composition: the spline along axis 1 built on the values of
\* all the column splines at x[1], evaluated at x[2].
Separable(m, d0, d1, v, x) ==
  MethodCall(m, d1,
             MethodValued(m, d1, [j \in 0..(PSize(d1) - 1) |->
                                    ColumnValue(m, d0, v, j, x)]),
             x[2], Zero).value

\* C15: for every spline class, grid, trajectory and raster, the k-th value
\* BiCospline returns is the separable composition of full splines: the
\* spline along axis 1, built on the values at x0_k of the splines along
\* axis 0 over the whole columns, evaluated at x1_k.
C15_SeparableComposition ==
  res.called =>
    \A k \in 1..Len(res.values) :
      res.values[k] = Separable(method, bi.domain0, bi.domain1, res.v, bi.xs[k])

\* The classes whose value on a subinterval reads the 4 knots around it only.
LocalMethods == {"FiniteDiffC2Spline", "LagrangeSpline"}

\* The same equality for the classes of local support.
SeparableWhereLocal ==
  (res.called /\ method \in LocalMethods) =>
    \A k \in 1..Len(res.values) :
      res.values[k] = Separable(method, bi.domain0, bi.domain1, res.v, bi.xs[k])

\* The indices of the subintervals that hold the k-th point of the trajectory.
IntervalIndices(b, k) ==
  <<PartitionIndex(b.domain0, b.xs[k][1]).i, PartitionIndex(b.domain1, b.xs[k][2]).i>>

\* max(i0-1,0) <= j0 <= min(i0+2, n0-1) and max(i1-1,0) <= j1 <= min(i1+2, n1-1)
InWindow(b, c, i) ==
  /\ i[1] - 1 <= c[1] /\ 0 <= c[1] /\ c[1] <= i[1] + 2 /\ c[1] <= PSize(b.domain0) - 1
  /\ i[2] - 1 <= c[2] /\ 0 <= c[2] /\ c[2] <= i[2] + 2 /\ c[2] <= PSize(b.domain1) - 1

MaskIffWindowWhereC2 ==
  method \in C2Methods =>
    /\ bi.m_mask \subseteq Cells(bi.domain0, bi.domain1)
    /\ \A c \in Cells(bi.domain0, bi.domain1) :
         c \in bi.m_mask <=>
           \E k \in 1..Len(bi.xs) : InWindow(bi, c, IntervalIndices(bi, k))

\* What Arg::index() reports for x: the interval index for a C2Arg, the index
\* of the second of the 4 knots of the polynomial for a LagrangeArg.
ReportedIndex(m, d, x) ==
  IF m \in C2Methods THEN PartitionIndex(d, x).i
  ELSE Clamp(PartitionIndex(d, x).i, 1, PSize(d) - 3)

ReportedIndices(m, b, k) ==
  <<ReportedIndex(m, b.domain0, b.xs[k][1]), ReportedIndex(m, b.domain1, b.xs[k][2])>>

StoredAt(b, c) == b.m_splines0[c[2]].m_v[c[1]]

\* C17: an evaluation calls set() on the splines along axis 0 for the cells of
\* the mask only: the knot value stored at every cell outside the mask is
\* the same before and after every evaluation, whatever the raster.
C17_UnmaskedUntouched ==
  [][\A c \in Cells(bi.domain0, bi.domain1) \ bi.m_mask :
       StoredAt(bi', c) = StoredAt(bi, c)]_vars

\* A call on a raster that holds, at a cell outside the mask, a value other
\* than the one stored there.
C17_Witness ==
  /\ res.called
  /\ \E c \in Cells(bi.domain0, bi.domain1) \ bi.m_mask :
       res.v[c] # StoredAt(bi, c)

(***************************************************************************)
(* C2Spline<Domain, std::complex<double>>: a knot value is a pair           *)
(* <<real part, imaginary part>>.  The abscissae, the lengths and the       *)
(* coefficients of an argument stay real, so that the code only adds and    *)
(* subtracts complex numbers and multiplies or divides them by reals.       *)
(***************************************************************************)
CxMaxVal == 1      \* largest real or imaginary part of a knot value

CZero == <<Zero, Zero>>

\* std::complex operator+ and operator-
CAdd(a, b) == <<RAdd(a[1], b[1]), RAdd(a[2], b[2])>>
CSub(a, b) == <<RSub(a[1], b[1]), RSub(a[2], b[2])>>

\* operator*(const complex<T>&, const T&) and operator*(const T&, const complex<T>&)
CMulR_realPart(z, t) == <<RMul(z[1], t), z[2]>>

CMulR(z, t) == <<RMul(z[1], t), RMul(z[2], t)>>

\* operator/(const complex<T>&, const T&)
CDivR(z, t) == <<RDiv(z[1], t), RDiv(z[2], t)>>

\* (m_v[i + 1] - m_v[i]) / h on complex values
CxSlope(d, v, i) == CDivR(CSub(v[i + 1], v[i]), PLength(d, i))

\* Spline(u, begin, end) on complex values
CxValued(vals) ==
  [m_v |-> vals, m_6s |-> [i \in DOMAIN vals |-> CZero], m_valid |-> FALSE]

\* C2Spline::update with Value = std::complex<double>: diag is real, rhs and
\* m_6s are complex.
CxUpdate(d, st) ==
  IF st.m_valid THEN st
  ELSE
    LET n == Size(st.m_6s)
        v == st.m_v
        Fwd[i \in 1..(n - 2)] ==
          IF i = 1
            THEN [diag |-> RMul(Two, RAdd(PLength(d, 0), PLength(d, 1))),
                  rhs |-> CSub(CxSlope(d, v, 1), CxSlope(d, v, 0))]
            ELSE
              LET h0 == PLength(d, i - 1)
                  h1 == PLength(d, i)
                  w == RDiv(h1, Fwd[i - 1].diag)
              IN  [diag |-> RSub(RMul(Two, RAdd(h0, h1)), RMul(w, h1)),
                   rhs |-> CSub(CSub(CxSlope(d, v, i), CxSlope(d, v, i - 1)),
                                CMulR(Fwd[i - 1].rhs, w))]
        Bwd[i \in 1..(n - 2)] ==
          IF i = n - 2
            THEN CDivR(Fwd[i].rhs, Fwd[i].diag)
            ELSE CDivR(CSub(Fwd[i].rhs, CMulR(Bwd[i + 1], PLength(d, i))), Fwd[i].diag)
    IN  [st EXCEPT
          !.m_6s = [i \in DOMAIN st.m_6s |->
                      IF 1 <= i /\ i <= n - 2 THEN Bwd[i] ELSE CZero],
          !.m_valid = TRUE]

\* The combination operator()(const Arg&) returns, on complex values.
CxValue(v, c, arg) ==
  CAdd(CAdd(CMulR(v[arg.m_i], arg.m_cv0), CMulR(v[arg.m_i + 1], arg.m_cv1)),
       CAdd(CMulR(c[arg.m_i], arg.m_c6s0), CMulR(c[arg.m_i + 1], arg.m_c6s1)))

\* What operator()(const Arg&) returns on the updated spline st.
CxReturn(st, arg) == [status |-> "ok", st |-> st, value |-> CxValue(st.m_v, st.m_6s, arg)]

\* operator()(Real x): the Arg is built, and may throw, before update().
CxCallArg(d, st, arg) ==
  IF arg.status # "ok"
    THEN [status |-> arg.status, st |-> st, value |-> CZero]
    ELSE CxReturn(CxUpdate(d, st), arg)

CxCall(d, st, x) == CxCallArg(d, st, C2Arg(d, x))

CxDomains == {d \in Domains : PSize(d) >= 3}

CxValues == {<<R(a), R(b)>> : a \in 0..CxMaxVal, b \in 0..CxMaxVal}

CxValueSeqs(n) == [0..(n - 1) -> CxValues]

CxNotCalled == [called |-> FALSE, x |-> Zero, status |-> "ok", value |-> CZero]

(***************************************************************************)
(* Specification of the complex spline: one spline on complex knot values, *)
(* then updates and evaluations.                                           *)
(***************************************************************************)
CxInit ==
  /\ part \in CxDomains
  /\ pts = part.m_u
  /\ ix = NoIndex
  /\ method = "C2Spline"
  /\ mx \in {CxValued(vals) : vals \in CxValueSeqs(PSize(part))}
  /\ co = <<>>
  /\ res = CxNotCalled
  /\ bi = <<>>
  /\ cache = "Early"
  /\ spl = <<>>
  /\ early = <<>>
  /\ updated = FALSE
  /\ fill = {}

CxFrame == UNCHANGED <<partVars, cacheVars, method, co, bi>>

\* update()
CxSolve ==
  /\ mx' = CxUpdate(part, mx)
  /\ UNCHANGED res
  /\ CxFrame

\* operator()(x)
CxEvalAt(x) ==
  \E r \in {CxCall(part, mx, x)} :
    /\ mx' = r.st
    /\ res' = [called |-> TRUE, x |-> x, status |-> r.status, value |-> r.value]
    /\ CxFrame

CxEval == \E x \in Arguments : CxEvalAt(x)

CxNext ==
  \/ CxSolve
  \/ CxEval

CxSpec == CxInit /\ [][CxNext]_vars

\* The real spline on one component of the complex knot values, at x.
ComponentSpline(d, v, k, x) ==
  MethodCall("C2Spline", d,
             MethodValued("C2Spline", d, [i \in DOMAIN v |-> v[i][k]]), x, Zero).value

\* C18: for complex knot values, the value of the spline at an x of the
\* domain has for real part the value at x of the spline of the real parts
\* of the knot values, and for imaginary part the value at x of the spline
\* of the imaginary parts.
C18_ComponentWise ==
  (res.called /\ res.status = "ok") =>
    /\ res.value[1] = ComponentSpline(part, mx.m_v, 1, res.x)
    /\ res.value[2] = ComponentSpline(part, mx.m_v, 2, res.x)

\* An evaluation on a partition of uneven lengths, whose value has different
\* non-zero parts and is the value of no knot.
C18_Witness ==
  /\ res.called /\ res.status = "ok"
  /\ PLength(part, 0) # PLength(part, 1)
  /\ res.value[1] # Zero /\ res.value[2] # Zero
  /\ res.value[1] # res.value[2]
  /\ \A i \in DOMAIN mx.m_v : mx.m_v[i] # res.value

(***************************************************************************)
(* Properties of the failed evaluations.                                   *)
(***************************************************************************)
\* x < u[0] or x > u[n-1]
OutOfDomain(d, x) == RLt(x, PAt(d, 0)) \/ RLt(PAt(d, PSize(d) - 1), x)

\* C20: evaluating a spline at a scalar x < u[0] or x > u[n-1] fails with
\* the error of Partition::index, and the failed call leaves the knot
\* values, the coefficients and the validity flag as they were.
C20_OutOfDomainLeavesSpline ==
  \A x \in Arguments :
    OutOfDomain(part, x) =>
      \A g \in MethodReads(method, part) :
        /\ MethodCall(method, part, mx, x, g).status = "runtime_error"
        /\ MethodCall(method, part, mx, x, g).st = mx

\* A spline whose coefficients are stale, which update() would change, with
\* arguments of Arguments on both sides of its domain.
C20_Witness ==
  /\ method \in CachedMethods
  /\ ~mx.m_valid
  /\ MethodUpdate(method, part, mx) # [mx EXCEPT !.m_valid = TRUE]
  /\ \E x \in Arguments : RLt(x, PAt(part, 0))
  /\ \E x \in Arguments : RLt(PAt(part, PSize(part) - 1), x)

(***************************************************************************)
(* Properties of the evaluations on a batch.                               *)
(***************************************************************************)
\* What a bicospline of the same class on the same grid, built on the point
\* x alone, returns for the raster v.
AlonePoint(m, d0, d1, v, x) == BiCall(m, BiCtor(m, d0, d1, <<x>>), v, <<Zero>>).y[1]

\* C19: an evaluation on a batch of m arguments returns m values, the k-th
\* being the value the evaluation of the k-th argument on its own returns,
\* in the order of the arguments; here for the bivariate cospline, whose
\* batch is its trajectory.
C19_BatchIsPointwise ==
  res.called =>
    /\ Len(res.values) = Len(bi.xs)
    /\ \A k \in 1..Len(bi.xs) :
         res.values[k] = AlonePoint(method, bi.domain0, bi.domain1, res.v, bi.xs[k])

\* The same for the bicosplines of the classes of local support.
BatchIsPointwiseWhereLocal ==
  method \in LocalMethods => C19_BatchIsPointwise

\* The same for the cospline and the spline it holds, where the arguments are
\* defined: the k-th value is the value of operator()(x_k) on a spline of the
\* same knot values.
CoBatchIsPointwise ==
  (res.called /\ (method = "LagrangeSpline" => PSize(part) >= 4)) =>
    /\ Len(res.values) = Len(co.xs)
    /\ \A k \in 1..Len(co.xs) :
         res.values[k] =
           MethodCall(method, part, MethodValued(method, part, co.m_spline.m_v),
                      co.xs[k], Zero).value

(***************************************************************************)
(* The runs of the solver.  update() returns at once when m_valid holds     *)
(* and solves otherwise; res counts the solves since the last assign or    *)
(* set, and keeps the kind of the last call and its number of arguments.   *)
(***************************************************************************)
\* if (m_valid) return; : the number of solves of one update() on st
Solves(st) == IF st.m_valid THEN 0 ELSE 1

\* The solves of operator()(begin, end) over the first k arguments.
RECURSIVE BatchSolves(_, _, _, _, _)
BatchSolves(m, d, st, args, k) ==
  IF k = 0 THEN 0
  ELSE BatchSolves(m, d, st, args, k - 1)
         + Solves(MethodBatch(m, d, st, args, [j \in 1..Len(args) |-> Zero], k - 1).st)

\* The sequences of arguments of the domain d.
DomainArgSeqs(d) == {xs \in ArgSeqs : Accepted(d, xs, 0) = Len(xs)}

StoredArgs(m, d, xs) == [j \in 1..Len(xs) |-> MethodArg(m, d, xs[j])]

\* The partitions of 3 knots, the fewest a C2 spline takes.
CountDomains == {d \in Domains : PSize(d) = 3}

CountInit ==
  /\ part \in CountDomains
  /\ pts = part.m_u
  /\ ix = NoIndex
  /\ method \in C2Methods
  /\ mx = MethodNull(method, part)
  /\ co = <<>>
  /\ res = [solves |-> 0, call |-> "none", m |-> 0]
  /\ bi = <<>>
  /\ cache = "Early"
  /\ spl = <<>>
  /\ early = <<>>
  /\ updated = FALSE
  /\ fill = {}

CountFrame == UNCHANGED <<partVars, cacheVars, method, co, bi>>

\* assign(begin, end)
CountAssign ==
  \E vals \in ValueSeqs(PSize(part)) :
    /\ mx' = MethodAssign(method, mx, vals)
    /\ res' = [solves |-> 0, call |-> "assign", m |-> 0]
    /\ CountFrame

\* set(i, value)
CountSet ==
  \E i \in 0..(PSize(part) - 1), value \in KnotValues :
    /\ mx' = MethodSet(method, mx, i, value)
    /\ res' = [solves |-> 0, call |-> "set", m |-> 0]
    /\ CountFrame

\* operator()(x), x in the domain
CountEval ==
  \E x \in {y \in Arguments : PartitionIndex(part, y).status = "ok"} :
    /\ mx' = MethodCall(method, part, mx, x, Zero).st
    /\ res' = [solves |-> res.solves + Solves(mx), call |-> "scalar", m |-> 1]
    /\ CountFrame

\* operator()(begin, end)
CountBatchOn(args) ==
  /\ mx' = MethodBatch(method, part, mx, args, [j \in 1..Len(args) |-> Zero], Len(args)).st
  /\ res' = [solves |-> res.solves + BatchSolves(method, part, mx, args, Len(args)),
             call |-> "batch", m |-> Len(args)]
  /\ CountFrame

CountBatch ==
  \E xs \in DomainArgSeqs(part) : CountBatchOn(StoredArgs(method, part, xs))

\* Co::operator()(v) of a cospline that holds the spline and the arguments
\* args: m_spline.assign(begin, end), then m_spline(m_args).
CountCoCallOn(vals, args) ==
  /\ mx' = MethodBatch(method, part, MethodAssign(method, mx, vals), args,
                       [j \in 1..Len(args) |-> Zero], Len(args)).st
  /\ res' = [solves |-> BatchSolves(method, part, MethodAssign(method, mx, vals),
                                    args, Len(args)),
             call |-> "co", m |-> Len(args)]
  /\ CountFrame

CountCoCall ==
  \E vals \in ValueSeqs(PSize(part)) :
    \E xs \in DomainArgSeqs(part) : CountCoCallOn(vals, StoredArgs(method, part, xs))

CountNext ==
  \/ CountAssign
  \/ CountSet
  \/ CountEval
  \/ CountBatch
  \/ CountCoCall

CountSpec == CountInit /\ [][CountNext]_vars

AnyValueSeqs == UNION {ValueSeqs(k) : k \in 0..(MaxKnots + 1)}

\* The length of the buffer of coefficients, m_6s or m_d; the Lagrange spline
\* has none.
CoefSize(m, st) ==
  IF m \in C2Methods THEN Size(st.m_6s)
  ELSE IF m \in HermiteMethods THEN Size(st.m_d)
  ELSE 0

SizeInit ==
  /\ part \in {d \in Domains : PSize(d) >= 3}
  /\ pts = part.m_u
  /\ ix = NoIndex
  /\ method \in Methods
  /\ mx = MethodNull(method, part)
  /\ cache \in {"None", "Lazy"}
  /\ spl = SplineNull(cache, part)
  /\ res = [call |-> "none", status |-> "ok", len |-> 0, coefs |-> 0, m_s |-> 0]
  /\ co = <<>>
  /\ bi = <<>>
  /\ early = <<>>
  /\ updated = FALSE
  /\ fill = {}

SizeFrame == UNCHANGED <<pts, part, ix, cache, early, updated, fill, method, co, bi>>

\* Spline(u, begin, end), for both kinds of spline
SizeConstruct ==
  \E vals \in AnyValueSeqs :
    /\ mx' = MethodValued(method, part, vals)
    /\ spl' = SplineValued(cache, part, vals)
    /\ res' = [call |-> "construct", status |-> "ok", len |-> Size(vals),
               coefs |-> 0, m_s |-> 0]
    /\ SizeFrame

\* assign(begin, end), for both kinds of spline; res keeps the lengths the
\* buffers of coefficients had before the call.
SizeAssign ==
  \E vals \in AnyValueSeqs :
    /\ mx' = MethodAssign(method, mx, vals)
    /\ spl' = SplineAssign(cache, part, spl, vals)
    /\ res' = [call |-> "assign", status |-> "ok", len |-> Size(vals),
               coefs |-> CoefSize(method, mx), m_s |-> Size(spl.m_s)]
    /\ SizeFrame

SizeNext ==
  \/ SizeConstruct
  \/ SizeAssign

SizeSpec == SizeInit /\ [][SizeNext]_vars

MaxSlope == 1      \* the slopes a are the integers -MaxSlope..MaxSlope

AffineMethods == HermiteMethods \cup {"LagrangeSpline"}

\* The values a * u[i] + b on the knots of d.
AffineValues(d, a, b) == [i \in 0..(PSize(d) - 1) |-> RAdd(RMul(R(a), PAt(d, i)), R(b))]

AffineValueSeqs(d) ==
  {AffineValues(d, a, b) : a \in (-MaxSlope)..MaxSlope, b \in 0..MaxVal}

AffineNotCalled == [called |-> FALSE, status |-> "ok", x |-> Zero, value |-> Zero]

AffineInit ==
  /\ part \in SolveDomains
  /\ pts = part.m_u
  /\ ix = NoIndex
  /\ method \in AffineMethods
  /\ mx \in {MethodValued(method, part, vals) : vals \in AffineValueSeqs(part)}
  /\ co = <<>>
  /\ res = AffineNotCalled
  /\ bi = <<>>
  /\ cache = "Early"
  /\ spl = <<>>
  /\ early = <<>>
  /\ updated = FALSE
  /\ fill = {}

AffineFrame == UNCHANGED <<partVars, cacheVars, method, co, bi>>

\* update(i)
AffineUpdate ==
  /\ mx' = MethodUpdate(method, part, mx)
  /\ UNCHANGED res
  /\ AffineFrame

\* operator()(x)
AffineEvalAt(x, g) ==
  \E r \in {MethodCall(method, part, mx, x, g)} :
    /\ mx' = r.st
    /\ res' = [called |-> TRUE, status |-> r.status, x |-> x, value |-> r.value]
    /\ AffineFrame

AffineEval ==
  \E x \in SolveArguments : \E g \in MethodReads(method, part) : AffineEvalAt(x, g)

AffineNext ==
  \/ AffineUpdate
  \/ AffineEval

AffineSpec == AffineInit /\ [][AffineNext]_vars

(***************************************************************************)
(* Properties of the Hermite and Lagrange classes.                         *)
(***************************************************************************)
\* C23: after an update of a finite-difference Hermite or uniform
\* Catmull-Rom spline, both end tangents are the one-sided finite
\* differences of the knot values: d[0] = (v[1]-v[0])/h[0] and
\* d[n-1] = (v[n-1]-v[n-2])/h[n-2].
C23_OneSidedEnds ==
  (method \in HermiteMethods /\ mx.m_valid) =>
    /\ mx.m_d[0] = Slope(part, mx.m_v, 0)
    /\ mx.m_d[PSize(part) - 1] = Slope(part, mx.m_v, PSize(part) - 2)

\* The first of the two equalities alone.
OneSidedFirstEnd ==
  (method \in HermiteMethods /\ mx.m_valid) => mx.m_d[0] = Slope(part, mx.m_v, 0)

\* Every slope of v is the first one.
Affine(d, v) == \A i \in 0..(Size(v) - 2) : Slope(d, v, i) = Slope(d, v, 0)

\* a * x + b for the affine function through the knot values v.
AffineAt(d, v, x) == RAdd(v[0], RMul(Slope(d, v, 0), RSub(x, PAt(d, 0))))

\* C24: the tangent weights of a Hermite argument are scaled by the length
\* of the interval: on any strictly increasing partition, of unit spacing or
\* not, a Hermite spline on affine knot values v[i] = a*u[i] + b returns
\* a*x + b at every x of an interval i whose end tangents d[i] and d[i+1]
\* both equal a.
C24_HermiteAffine ==
  (/\ res.called /\ res.status = "ok"
   /\ method \in HermiteMethods
   /\ Affine(part, mx.m_v)
   /\ mx.m_d[PartitionIndex(part, res.x).i] = Slope(part, mx.m_v, 0)
   /\ mx.m_d[PartitionIndex(part, res.x).i + 1] = Slope(part, mx.m_v, 0))
    => res.value = AffineAt(part, mx.m_v, res.x)

\* The same on the intervals of length 1.
HermiteAffineWhereUnit ==
  (/\ res.called /\ res.status = "ok"
   /\ PLength(part, PartitionIndex(part, res.x).i) = One)
    => C24_HermiteAffine

\* C25: for knot values that are an affine function of the abscissae,
\* v[i] = a*u[i] + b, on a partition of at least 4 knots, the Lagrange
\* spline returns a*x + b at every x of the domain, the first and last
\* subintervals included.
C25_LagrangeAffine ==
  (/\ res.called /\ res.status = "ok"
   /\ method = "LagrangeSpline"
   /\ PSize(part) >= 4
   /\ Affine(part, mx.m_v))
    => res.value = AffineAt(part, mx.m_v, res.x)

\* An evaluation strictly inside the last subinterval of an uneven partition
\* of 4 knots, on values of slope other than 0.
C25_Witness ==
  /\ res.called /\ res.status = "ok"
  /\ method = "LagrangeSpline"
  /\ PSize(part) = 4
  /\ PLength(part, 0) # PLength(part, 2)
  /\ Slope(part, mx.m_v, 0) # Zero
  /\ RLt(PAt(part, 2), res.x) /\ RLt(res.x, PAt(part, 3))

\* 2*((v[i+1]-v[i])/h[i] - (v[i]-v[i-1])/h[i-1])/(h[i-1]+h[i])
SecondDifference(d, v, i) ==
  RDiv(RMul(Two, RSub(RDiv(RSub(v[i + 1], v[i]), PLength(d, i)),
                      RDiv(RSub(v[i], v[i - 1]), PLength(d, i - 1)))),
       RAdd(PLength(d, i - 1), PLength(d, i)))

\* The coefficients after set(j, value) and a recomputation.
CoefsAfterSet(j, value) ==
  MethodUpdate(method, part, MethodSet(method, mx, j, value)).m_6s

\* C26: each interior coefficient of a finite-difference C2 spline comes from
\* its own knot and its two neighbours only,
\* s[i] = 2*((v[i+1]-v[i])/h[i] - (v[i]-v[i-1])/h[i-1])/(h[i-1]+h[i]); hence
\* after set(j, value) and a recomputation every coefficient at an index
\* outside j-1..j+1 has the value it had before the set.
C26_LocalCoefficients ==
  (method = "FiniteDiffC2Spline" /\ mx.m_valid) =>
    /\ \A i \in 1..(PSize(part) - 2) :
         mx.m_6s[i] = SecondDifference(part, mx.m_v, i)
    /\ \A j \in 0..(PSize(part) - 1) : \A value \in SolveValues :
         \A i \in (0..(PSize(part) - 1)) \ ((j - 1)..(j + 1)) :
           CoefsAfterSet(j, value)[i] = mx.m_6s[i]

\* An updated finite-difference spline on an uneven partition of 4 knots
\* where a set(0, value) changes the coefficient at 1 and leaves index 2
\* outside its neighbourhood with a coefficient other than 0.
C26_Witness ==
  /\ method = "FiniteDiffC2Spline" /\ mx.m_valid
  /\ PSize(part) = 4
  /\ PLength(part, 0) # PLength(part, 1)
  /\ mx.m_6s[2] # Zero
  /\ \E value \in SolveValues : CoefsAfterSet(0, value)[1] # mx.m_6s[1]

(***************************************************************************)
(* Linspace.h: Linspace<T>, the evenly spaced domain of knots              *)
(* m_front + i * m_h for i in 0..m_ssize - 1.  mx holds the Linspace, part *)
(* the Partition over the same knots and ix the last lookup in the         *)
(* Linspace.                                                               *)
(***************************************************************************)
MaxFront == 1      \* the first knots are the integers 0..MaxFront

\* The steps: half a unit, a unit, two units.
LinSteps == {Q(1, 2), R(1), R(2)}

\* Linx::Index(q): the conversion of a floating-point number to an integer
\* truncates toward zero.
Truncate(q) == IF q[1] >= 0 THEN q[1] \div q[2] ELSE -((-q[1]) \div q[2])

\* Linspace(front, step, size)
LinspaceCtor(front, step, size) == [m_front |-> front, m_h |-> step, m_ssize |-> size]

\* Linspace::operator[](i)
LinspaceAt(l, i) == RAdd(l.m_front, RMul(R(i), l.m_h))

\* Linspace::index(x)
LinspaceIndex(l, x) ==
  [status |-> "ok", i |-> Truncate(RDiv(RSub(x, l.m_front), l.m_h))]

\* The knots of a Linspace, as a sequence for the Partition constructor.
LinspaceKnots(l) == [i \in 0..(l.m_ssize - 1) |-> LinspaceAt(l, i)]

\* Arguments: the multiples of 1/4 from a unit below the first knot to a unit
\* above the last one.
LinArguments(l) ==
  {RAdd(l.m_front, Q(k, 4)) : k \in (-4)..(4 * Truncate(RMul(R(l.m_ssize - 1), l.m_h)) + 6)}

LinInit ==
  /\ \E front \in 0..MaxFront, step \in LinSteps, size \in 3..MaxKnots :
       /\ mx = LinspaceCtor(R(front), step, size)
       /\ part = PartitionCtor(LinspaceKnots(mx))
  /\ pts = part.m_u
  /\ ix = NoIndex
  /\ method = "none"
  /\ co = <<>>
  /\ res = <<>>
  /\ bi = <<>>
  /\ cache = "Early"
  /\ spl = <<>>
  /\ early = <<>>
  /\ updated = FALSE
  /\ fill = {}

\* index(x)
LinLookupAt(x) ==
  /\ ix' = [x |-> x, status |-> LinspaceIndex(mx, x).status, i |-> LinspaceIndex(mx, x).i]
  /\ UNCHANGED <<pts, part, cacheVars, splineVars>>

LinLookup == \E x \in LinArguments(mx) : LinLookupAt(x)

LinNext == LinLookup

LinSpec == LinInit /\ [][LinNext]_vars

\* C27: for an evenly spaced domain Linspace(front, step, n) with step > 0,
\* index(x) gives for every x the outcome of a Partition over the same n
\* knots: the interval i with u[i] <= x < u[i+1], n-2 for x at the last
\* knot, and the out-of-domain error for x below the first knot or above
\* the last one.
C27_LinspaceAsPartition ==
  ix.status # "none" =>
    /\ ix.status = PartitionIndex(part, ix.x).status
    /\ ix.status = "ok" => ix.i = PartitionIndex(part, ix.x).i

\* The same for the x from the first knot to below the last one.
LinspaceAsPartitionInside ==
  (/\ ix.status # "none"
   /\ RLe(PAt(part, 0), ix.x)
   /\ RLt(ix.x, PAt(part, PSize(part) - 1)))
    => C27_LinspaceAsPartition

(***************************************************************************)
(* Properties of the end knots of Spline<T, Cache>.                        *)
(***************************************************************************)
\* C28: under the Lazy and None policies the end indices 0 and n-1 stay
\* marked valid after any construction, assign, v(i, value) and evaluation,
\* so that update(i) never runs with i = 0 or i = n-1, which would read
\* v[i-1] or v[i+1] outside the knot values.
C28_EndsStayValid ==
  cache \in {"Lazy", "None"} =>
    /\ 0 \in spl.m_cache
    /\ Size(spl.m_v) - 1 \in spl.m_cache

(***************************************************************************)
(* Properties of the Lagrange argument.                                    *)
(***************************************************************************)
\* The knot values operator()(const Arg&) of the Lagrange spline reads:
\* four of them, from m_v[m_i - 1] on.
LagrangeReadIndices(arg) == (arg.m_i - 1)..(arg.m_i + 2)

\* The Lagrange argument of x is built without undefined behaviour, with an
\* index in 1..n-3, and its evaluation reads inside 0..n-1.
LagrangeReadsInside(d, x) ==
  LET arg == LagrangeArg(d, x)
  IN  /\ arg.status = "ok"
      /\ 1 <= arg.m_i
      /\ arg.m_i <= PSize(d) - 3
      /\ LagrangeReadIndices(arg) \subseteq 0..(PSize(d) - 1)

\* C29: for every partition the Partition constructor accepts (3 knots or
\* more) and every abscissa x of the domain, the index i of the Lagrange
\* argument of x satisfies 1 <= i <= n-3, and the evaluation reads the knot
\* values v[i-1..i+2] only, all of them inside 0..n-1.
C29_LagrangeReadsInside ==
  method = "LagrangeSpline" =>
    \A x \in Arguments : InDomain(x) => LagrangeReadsInside(part, x)

\* The same on partitions of 4 knots or more.
LagrangeReadsInsideFromFour ==
  (method = "LagrangeSpline" /\ PSize(part) >= 4) =>
    \A x \in Arguments : InDomain(x) => LagrangeReadsInside(part, x)

(***************************************************************************)
(* Properties of a failed assign of a cospline.                            *)
(***************************************************************************)
\* The argument sequences assign(x) throws on, on the cospline c.
FailingArgSeqs(m, d, c) ==
  {xs \in ArgSeqs : CoAssignArgs(m, d, c, xs).status = "runtime_error"}

\* The number of values a call returns on the cospline c.
CoCallSizes(m, d, c) ==
  {Len(CoCall(m, d, c, vals, gs).values) :
     vals \in ValueSeqs(PSize(d)), gs \in CoReads(m, d, c)}

\* C30: when assign(x) of a cospline throws because one abscissa lies
\* outside the domain, the cospline holds exactly the arguments it held
\* before the call, and a following call returns one value per argument
\* stored before.
C30_FailedAssignKeepsArgs ==
  \A xs \in FailingArgSeqs(method, part, co) :
    LET after == CoAssignArgs(method, part, co, xs).co
    IN  /\ after.m_args = co.m_args
        /\ after.xs = co.xs
        /\ CoCallSizes(method, part, after) = {Len(co.m_args)}

=============================================================================
